---- MODULE Spec2Model ----
(***************************************************************************)
(* Model of MiniGit.py (class Sbac): a local version-control tool with a   *)
(* content-addressed object directory, a tracking table (files), a commit  *)
(* history (commits, commit_files) and named baselines.                    *)
(*                                                                         *)
(* The durable state is the SQLite tables and the object directory under   *)
(* .sbac; the working tree is the files under the repository root.  Every  *)
(* method of Sbac is one action, run to completion (single process);       *)
(* commit is also given statement by statement, for a process that stops   *)
(* inside it and for two processes on one repository.                      *)
(***************************************************************************)
EXTENDS Integers, Sequences, FiniteSets, TLC

(***************************************************************************)
(* Bounds of the model.                                                    *)
(***************************************************************************)
\* wall-clock readings are 0..MaxTime
MaxTime == 1
\* no more than MaxCommits rows are inserted into commits
MaxCommits == 2
\* clock readings of the specification that explores longer histories
MaxHistoryTime == 2
\* clock readings of the specification with two controllers
MaxControllersTime == 0
\* clock readings of the specifications about add and about a stopped commit
MaxAddTime == 0
\* clock readings of the specification with two concurrent processes
MaxRaceTime == 2

\* repository-relative paths, in the order the tables are scanned
PathSeq == <<"a.txt", "b.txt">>
Paths == {PathSeq[i] : i \in 1..Len(PathSeq)}
\* file contents a user writes into the working tree
Contents == {"hello", "bye"}
Messages == {"first"}

\* marks a path with no file on disk
NoFile == "absent"
\* SQL NULL in commits.parent_id
Null == "null"

(***************************************************************************)
(* hashlib.sha1 over the bytes of a file, as the leading hex digits of the *)
(* real digests: distinct contents have distinct digests.                  *)
(***************************************************************************)
Digest(content) ==
    CASE content = "hello" -> "aaf4c61"
      [] content = "bye"   -> "78c9a53"
      [] OTHER             -> "da39a3e"

(***************************************************************************)
(* hashlib.sha1(str(datetime.now()).encode()).hexdigest(): the commit id   *)
(* is a function of the clock reading alone, so two commits that read the  *)
(* same clock value get the same id.                                       *)
(***************************************************************************)
IdTable == <<"f503cc", "e53538", "2a5bd0", "435869", "a9dfb1", "bf55e7">>
IdOf(t) == IdTable[t + 1]

\* baseline names a user may choose; one of them is spelled like a commit id
Names == {"v1", IdOf(0)}

VARIABLES
    cwdIsRoot,    \* the process's current directory is the repository root
    sbac_dir,     \* os.path.exists(self.sbac_dir): the metadata directory is there
    initialized,  \* self.initialized of each controller instance
    tree,         \* working tree under the repository root: path -> content
    cwdTree,      \* files of the current directory when it is not the root
    objects,      \* .sbac/objects: digest -> stored bytes
    files,        \* table files: path -> [last_hash, staged]
    commits,      \* table commits, in insertion order
    commit_files, \* table commit_files, in insertion order
    baselines,    \* table baselines: name -> commit_id
    ret,          \* the last call: [op, ctl, arg, result]
    commit_id,    \* local commit_id of the last checkout
    statusOut,    \* lists printed by the last status()
    historyOut,   \* rows printed by the last history()
    pc,           \* where each process stands inside commit(), "idle" outside
    parents,      \* local parent_id of each process's commit()
    pending,      \* staged rows each process's commit() has still to record
    tx            \* the open SQLite write transaction: its owner and its view

durable == <<sbac_dir, objects, files, commits, commit_files, baselines>>
disk == <<tree, cwdTree>>
procs == <<pc, parents, pending, tx>>
vars == <<cwdIsRoot, sbac_dir, initialized, tree, cwdTree, objects, files,
          commits, commit_files, baselines, ret, commit_id, statusOut, historyOut,
          pc, parents, pending, tx>>

\* no write transaction is open: the tables are what every connection reads
NoTx == [owner |-> 0, commits |-> <<>>, commit_files |-> <<>>, files |-> <<>>]

NoStatus == [staged |-> {}, modified |-> {}, untracked |-> {}]
NoOuts == commit_id' = Null /\ statusOut' = NoStatus /\ historyOut' = <<>>

Ret(op, c, arg, result) == [op |-> op, ctl |-> c, arg |-> arg, result |-> result]

(***************************************************************************)
(* Sbac.__init__ on an empty directory (as the tests do): no metadata      *)
(* directory, so self.initialized is False and no table exists.            *)
(***************************************************************************)
InitOn(cwd) ==
    /\ cwdIsRoot \in cwd
    /\ sbac_dir = FALSE
    /\ initialized = [c \in {1, 2} |-> FALSE]
    /\ tree = [p \in Paths |-> NoFile]
    /\ cwdTree = [p \in Paths |-> NoFile]
    /\ objects = <<>>
    /\ files = <<>>
    /\ commits = <<>>
    /\ commit_files = <<>>
    /\ baselines = <<>>
    /\ ret = Ret("new", 1, "", "ok")
    /\ commit_id = Null
    /\ statusOut = NoStatus
    /\ historyOut = <<>>
    /\ pc = [c \in {1, 2} |-> "idle"]
    /\ parents = [c \in {1, 2} |-> Null]
    /\ pending = [c \in {1, 2} |-> <<>>]
    /\ tx = NoTx

(***************************************************************************)
(* The user's editor: writes or deletes a file of the working tree.        *)
(***************************************************************************)
WriteFile(p, b) ==
    /\ tree[p] # b
    /\ tree' = [tree EXCEPT ![p] = b]
    /\ ret' = Ret("edit", 1, p, "ok")
    /\ NoOuts
    /\ UNCHANGED <<cwdIsRoot, initialized, cwdTree, durable, procs>>

(***************************************************************************)
(* Sbac.__init__: a new controller object on the directory.                *)
(***************************************************************************)
New(c) ==
    /\ initialized' = [initialized EXCEPT ![c] = sbac_dir]
    /\ ret' = Ret("new", c, "", "ok")
    /\ NoOuts
    /\ UNCHANGED <<cwdIsRoot, disk, durable, procs>>

\* the guard every method but init starts with
NotInitialized(c) == ~initialized[c]

(***************************************************************************)
(* Sbac.init.  The config row (created_at) is written and never read.      *)
(***************************************************************************)
SbacInit(c) ==
    /\ IF initialized[c]
       THEN /\ ret' = Ret("init", c, "", "AlreadyInitialized")
            /\ UNCHANGED <<initialized, sbac_dir>>
       ELSE IF sbac_dir
       THEN \* os.makedirs(self.sbac_dir) raises: the directory exists
            /\ ret' = Ret("init", c, "", "raise FileExistsError")
            /\ UNCHANGED <<initialized, sbac_dir>>
       ELSE /\ sbac_dir' = TRUE
            /\ initialized' = [initialized EXCEPT ![c] = TRUE]
            /\ ret' = Ret("init", c, "", "ok")
    /\ NoOuts
    /\ UNCHANGED <<cwdIsRoot, disk, objects, files, commits, commit_files, baselines,
                   procs>>

(***************************************************************************)
(* Helpers of the tables.                                                  *)
(***************************************************************************)
\* INSERT OR IGNORE: a row whose key is taken is left as it is
UpsertIgnore(table, key, row) ==
    [k \in DOMAIN table \cup {key} |-> IF k \in DOMAIN table THEN table[k] ELSE row]

\* INSERT OR REPLACE into a table with a primary key
Upsert(table, key, row) ==
    [k \in DOMAIN table \cup {key} |-> IF k = key THEN row ELSE table[k]]

\* the paths of a set in table-scan order
InScanOrder(S) == SelectSeq(PathSeq, LAMBDA p : p \in S)

\* os.path.exists(abs_path) for a path under the repository root
Exists(p) == tree[p] # NoFile

\* the digest of the path's text instead of the file's bytes
CalculateHashOfPath(p) == Digest(p)

\* Sbac._calculate_hash of a file under the repository root
CalculateHash(p) == Digest(tree[p])

\* the object directory emptied before the copy
StoreObjectAlone(store, object_hash, p) == [h \in {object_hash} |-> tree[p]]

\* the copy left out
StoreObjectSkipped(store, object_hash, p) == store

\* Sbac._store_object: copies the file to .sbac/objects/<hash[:2]>/<hash[2:]>,
\* the place _get_object_content and checkout read it from
StoreObject(store, object_hash, p) == Upsert(store, object_hash, tree[p])

(***************************************************************************)
(* Sbac.add.  The column last_modified is written and never read.          *)
(***************************************************************************)
Add(c, p) ==
    /\ IF NotInitialized(c)
       THEN /\ ret' = Ret("add", c, p, "NotInitialized")
            /\ UNCHANGED <<objects, files>>
       ELSE IF ~Exists(p)
       THEN /\ ret' = Ret("add", c, p, "FileNotFound")
            /\ UNCHANGED <<objects, files>>
       ELSE /\ objects' = StoreObject(objects, CalculateHash(p), p)
            /\ files' = Upsert(files, p, [last_hash |-> CalculateHash(p), staged |-> 1])
            /\ ret' = Ret("add", c, p, "ok")
    /\ NoOuts
    /\ UNCHANGED <<cwdIsRoot, initialized, disk, sbac_dir, commits, commit_files, baselines,
                   procs>>

(***************************************************************************)
(* Sbac.status and Sbac._find_untracked_files                              *)
(***************************************************************************)
\* SELECT path FROM files WHERE staged = 1
StagedPaths(tbl) == {p \in DOMAIN tbl : tbl[p].staged = 1}

\* tracked paths whose file exists and hashes to something else than last_hash
ModifiedPaths(tbl) ==
    {p \in DOMAIN tbl : Exists(p) /\ CalculateHash(p) # tbl[p].last_hash}

\* files found by os.walk(repo_path) that are not keys of the table
FindUntrackedFiles(tbl) == {p \in Paths : Exists(p) /\ p \notin DOMAIN tbl}

Status(c) ==
    /\ IF NotInitialized(c)
       THEN /\ ret' = Ret("status", c, "", "NotInitialized")
            /\ statusOut' = NoStatus
       ELSE /\ ret' = Ret("status", c, "", "ok")
            /\ statusOut' = [staged    |-> StagedPaths(files),
                             modified  |-> ModifiedPaths(files),
                             untracked |-> FindUntrackedFiles(files)]
    /\ commit_id' = Null
    /\ historyOut' = <<>>
    /\ UNCHANGED <<cwdIsRoot, initialized, disk, durable, procs>>

(***************************************************************************)
(* Sbac.diff.  The module never imports difflib, so the first use of       *)
(* difflib.unified_diff raises NameError; open() of a deleted file raises  *)
(* FileNotFoundError before that.                                          *)
(***************************************************************************)
DiffOne(p) ==
    IF p \notin DOMAIN files THEN "UntrackedFile"
    ELSE IF files[p].last_hash \notin DOMAIN objects THEN "raise FileNotFoundError"
    ELSE IF ~Exists(p) THEN "raise FileNotFoundError"
    ELSE "raise NameError"

DiffAll ==
    IF \E p \in DOMAIN files : Exists(p) /\ CalculateHash(p) # files[p].last_hash
    THEN "raise NameError"
    ELSE "ok"

\* p = "" is the form without a path
Diff(c, p) ==
    /\ ret' = Ret("diff", c, p,
                  IF NotInitialized(c) THEN "NotInitialized"
                  ELSE IF p # "" THEN DiffOne(p) ELSE DiffAll)
    /\ NoOuts
    /\ UNCHANGED <<cwdIsRoot, initialized, disk, durable, procs>>

(***************************************************************************)
(* Sbac.commit                                                             *)
(***************************************************************************)
MaxOf(S) == CHOOSE x \in S : \A y \in S : y <= x

CommitIds(cs) == {cs[i].id : i \in 1..Len(cs)}

\* the head's id recomputed from its timestamp column instead of read from
\* its id column
HeadsFromTimestamp(cs) ==
    IF cs = <<>> THEN {Null}
    ELSE {IdOf(MaxOf({cs[i].timestamp : i \in 1..Len(cs)}))}

\* SELECT id FROM commits ORDER BY timestamp DESC LIMIT 1: the rows this
\* may return; SQL leaves the order of rows with equal timestamps open
Heads(cs) ==
    IF cs = <<>> THEN {Null}
    ELSE LET top == MaxOf({cs[i].timestamp : i \in 1..Len(cs)})
         IN  {cs[i].id : i \in {j \in 1..Len(cs) : cs[j].timestamp = top}}

\* the query without its WHERE clause
StagedRowsAll(tbl) == InScanOrder(DOMAIN tbl)

\* SELECT path, last_hash FROM files WHERE staged = 1
StagedRows(tbl) == InScanOrder(StagedPaths(tbl))

\* the loop without its UPDATE files SET staged = 0
RECURSIVE RecordStagedKeepsFlag(_, _, _, _)
RecordStagedKeepsFlag(rows, id, cf, tbl) ==
    IF rows = <<>> THEN [commit_files |-> cf, files |-> tbl]
    ELSE LET path == Head(rows)
         IN  RecordStagedKeepsFlag(Tail(rows), id,
                 Append(cf, [commit_id |-> id, file_path |-> path,
                             file_hash |-> tbl[path].last_hash]),
                 tbl)

\* the loop over the staged rows: one commit_files row per path, staged = 0
RECURSIVE RecordStaged(_, _, _, _)
RecordStaged(rows, id, cf, tbl) ==
    IF rows = <<>> THEN [commit_files |-> cf, files |-> tbl]
    ELSE LET path == Head(rows)
         IN  RecordStaged(Tail(rows), id,
                 Append(cf, [commit_id |-> id, file_path |-> path,
                             file_hash |-> tbl[path].last_hash]),
                 [tbl EXCEPT ![path].staged = 0])

\* commit on a table commits whose id is no primary key
CommitWithoutPrimaryKey(c, message, t1, t2) ==
    /\ IF NotInitialized(c)
       THEN /\ ret' = Ret("commit", c, "", "NotInitialized")
            /\ UNCHANGED <<files, commits, commit_files>>
       ELSE /\ \E parent \in Heads(commits) :
                 LET done == RecordStaged(StagedRows(files), IdOf(t1), commit_files, files)
                 IN  /\ commits' = Append(commits,
                            [id |-> IdOf(t1), message |-> message,
                             timestamp |-> t2, parent_id |-> parent])
                     /\ commit_files' = done.commit_files
                     /\ files' = done.files
            /\ ret' = Ret("commit", c, "", "ok")
    /\ NoOuts
    /\ UNCHANGED <<cwdIsRoot, initialized, disk, sbac_dir, objects, baselines, procs>>

\* t1 and t2 are the two readings of datetime.now(): id and timestamp.
\* datetime.now() is the local wall clock: readings of different calls may
\* repeat (clock granularity) or go back (DST, clock adjustment).  The
\* timestamp column holds str(datetime), whose text order is the order of
\* the readings, so a reading stands for its text.
Commit(c, message, t1, t2) ==
    /\ IF NotInitialized(c)
       THEN /\ ret' = Ret("commit", c, "", "NotInitialized")
            /\ UNCHANGED <<files, commits, commit_files>>
       ELSE IF IdOf(t1) \in CommitIds(commits)
       THEN \* INSERT violates the primary key; nothing is committed
            /\ ret' = Ret("commit", c, "", "raise IntegrityError")
            /\ UNCHANGED <<files, commits, commit_files>>
       ELSE /\ \E parent_id \in Heads(commits) :
                 LET done == RecordStaged(StagedRows(files), IdOf(t1), commit_files, files)
                 IN  /\ commits' = Append(commits,
                            [id |-> IdOf(t1), message |-> message,
                             timestamp |-> t2, parent_id |-> parent_id])
                     /\ commit_files' = done.commit_files
                     /\ files' = done.files
            /\ ret' = Ret("commit", c, "", "ok")
    /\ NoOuts
    /\ UNCHANGED <<cwdIsRoot, initialized, disk, sbac_dir, objects, baselines, procs>>

(***************************************************************************)
(* Sbac.commit statement by statement, for a process that may stop inside  *)
(* it or run beside another process.  sqlite3 opens a transaction before   *)
(* the first INSERT and holds the database's write lock until              *)
(* conn.commit(); the rows written meanwhile are seen by this connection   *)
(* only (tx), and are rolled back if the process stops before              *)
(* conn.commit().  The SELECT of the head runs before any transaction.     *)
(***************************************************************************)
Idle(c) == pc[c] = "idle"

\* the locals of commit() are gone
Leave(c) ==
    /\ pc' = [pc EXCEPT ![c] = "idle"]
    /\ parents' = [parents EXCEPT ![c] = Null]
    /\ pending' = [pending EXCEPT ![c] = <<>>]

\* the guard and the SELECT of the head
CommitHead(c) ==
    /\ Idle(c)
    /\ IF NotInitialized(c)
       THEN /\ ret' = Ret("commit", c, "", "NotInitialized")
            /\ UNCHANGED <<pc, parents>>
       ELSE /\ \E parent \in Heads(commits) :
                 parents' = [parents EXCEPT ![c] = parent]
            /\ pc' = [pc EXCEPT ![c] = "head"]
            /\ ret' = Ret("commit", c, "head", "running")
    /\ NoOuts
    /\ UNCHANGED <<cwdIsRoot, initialized, disk, durable, pending, tx>>

\* the INSERT done inside a transaction that reads the head again
CommitInsertRereadsHead(c, message, t1, t2) ==
    /\ pc[c] = "head"
    /\ IF tx.owner # 0
       THEN /\ ret' = Ret("commit", c, "", "raise OperationalError")
            /\ Leave(c)
            /\ UNCHANGED tx
       ELSE IF IdOf(t1) \in CommitIds(commits)
       THEN /\ ret' = Ret("commit", c, "", "raise IntegrityError")
            /\ Leave(c)
            /\ UNCHANGED tx
       ELSE /\ \E parent \in Heads(commits) :
                 tx' = [owner |-> c,
                        commits |-> Append(commits,
                            [id |-> IdOf(t1), message |-> message,
                             timestamp |-> t2, parent_id |-> parent]),
                        commit_files |-> commit_files,
                        files |-> files]
            /\ pc' = [pc EXCEPT ![c] = "insert"]
            /\ ret' = Ret("commit", c, "insert", "running")
            /\ UNCHANGED <<parents, pending>>
    /\ NoOuts
    /\ UNCHANGED <<cwdIsRoot, initialized, disk, durable>>

\* commit_id and the INSERT INTO commits.  While another connection holds
\* the write lock the INSERT waits (another process moves) and, after
\* sqlite3's timeout, raises OperationalError.
CommitInsert(c, message, t1, t2) ==
    /\ pc[c] = "head"
    /\ IF tx.owner # 0
       THEN /\ ret' = Ret("commit", c, "", "raise OperationalError")
            /\ Leave(c)
            /\ UNCHANGED tx
       ELSE IF IdOf(t1) \in CommitIds(commits)
       THEN \* the primary key is violated; the transaction is rolled back
            /\ ret' = Ret("commit", c, "", "raise IntegrityError")
            /\ Leave(c)
            /\ UNCHANGED tx
       ELSE /\ tx' = [owner |-> c,
                      commits |-> Append(commits,
                          [id |-> IdOf(t1), message |-> message,
                           timestamp |-> t2, parent_id |-> parents[c]]),
                      commit_files |-> commit_files,
                      files |-> files]
            /\ pc' = [pc EXCEPT ![c] = "insert"]
            /\ ret' = Ret("commit", c, "insert", "running")
            /\ UNCHANGED <<parents, pending>>
    /\ NoOuts
    /\ UNCHANGED <<cwdIsRoot, initialized, disk, durable>>

\* SELECT path, last_hash FROM files WHERE staged = 1, fetchall()
CommitSelect(c) ==
    /\ pc[c] = "insert"
    /\ pending' = [pending EXCEPT ![c] = StagedRows(tx.files)]
    /\ pc' = [pc EXCEPT ![c] = "loop"]
    /\ ret' = Ret("commit", c, "loop", "running")
    /\ NoOuts
    /\ UNCHANGED <<cwdIsRoot, initialized, disk, durable, parents, tx>>

\* the loop body's INSERT INTO commit_files
CommitEntry(c) ==
    /\ pc[c] = "loop"
    /\ pending[c] # <<>>
    /\ LET path == Head(pending[c])
           id == tx.commits[Len(tx.commits)].id
       IN  tx' = [tx EXCEPT !.commit_files =
                      Append(@, [commit_id |-> id, file_path |-> path,
                                 file_hash |-> tx.files[path].last_hash])]
    /\ pc' = [pc EXCEPT ![c] = "entry"]
    /\ ret' = Ret("commit", c, "entry", "running")
    /\ NoOuts
    /\ UNCHANGED <<cwdIsRoot, initialized, disk, durable, parents, pending>>

\* the UPDATE on a connection in autocommit mode: written at once
CommitUnstageAutocommit(c) ==
    /\ pc[c] = "entry"
    /\ tx' = [tx EXCEPT !.files[Head(pending[c])].staged = 0]
    /\ files' = [files EXCEPT ![Head(pending[c])].staged = 0]
    /\ pending' = [pending EXCEPT ![c] = Tail(@)]
    /\ pc' = [pc EXCEPT ![c] = "loop"]
    /\ ret' = Ret("commit", c, "loop", "running")
    /\ NoOuts
    /\ UNCHANGED <<cwdIsRoot, initialized, disk, sbac_dir, objects, commits,
                   commit_files, baselines, parents>>

\* the loop body's UPDATE files SET staged = 0
CommitUnstage(c) ==
    /\ pc[c] = "entry"
    /\ tx' = [tx EXCEPT !.files[Head(pending[c])].staged = 0]
    /\ pending' = [pending EXCEPT ![c] = Tail(@)]
    /\ pc' = [pc EXCEPT ![c] = "loop"]
    /\ ret' = Ret("commit", c, "loop", "running")
    /\ NoOuts
    /\ UNCHANGED <<cwdIsRoot, initialized, disk, durable, parents>>

\* conn.commit(): the transaction's rows become the tables
CommitDone(c) ==
    /\ pc[c] = "loop"
    /\ pending[c] = <<>>
    /\ commits' = tx.commits
    /\ commit_files' = tx.commit_files
    /\ files' = tx.files
    /\ tx' = NoTx
    /\ Leave(c)
    /\ ret' = Ret("commit", c, "", "ok")
    /\ NoOuts
    /\ UNCHANGED <<cwdIsRoot, initialized, disk, sbac_dir, objects, baselines>>

\* the process stops inside commit(): its open transaction is rolled back
\* (the next connection finds the journal), and the next process on the
\* directory starts with a controller that finds .sbac there
Crash(c) ==
    /\ ~Idle(c)
    /\ tx' = IF tx.owner = c THEN NoTx ELSE tx
    /\ Leave(c)
    /\ ret' = Ret("crash", c, pc[c], "stopped")
    /\ NoOuts
    /\ UNCHANGED <<cwdIsRoot, initialized, disk, durable>>

\* add while another connection holds the write lock: the object is copied,
\* then INSERT OR REPLACE waits and raises OperationalError
AddWhileLocked(c, p) ==
    /\ tx.owner # 0
    /\ IF NotInitialized(c)
       THEN /\ ret' = Ret("add", c, p, "NotInitialized")
            /\ UNCHANGED objects
       ELSE IF ~Exists(p)
       THEN /\ ret' = Ret("add", c, p, "FileNotFound")
            /\ UNCHANGED objects
       ELSE /\ objects' = StoreObject(objects, CalculateHash(p), p)
            /\ ret' = Ret("add", c, p, "raise OperationalError")
    /\ NoOuts
    /\ UNCHANGED <<cwdIsRoot, initialized, disk, sbac_dir, files, commits, commit_files,
                   baselines, procs>>

(***************************************************************************)
(* Sbac.history: SELECT ... FROM commits ORDER BY timestamp DESC           *)
(***************************************************************************)
\* the orders ORDER BY timestamp DESC may list the rows in
IsPermutation(order, n) ==
    /\ Len(order) = n
    /\ {order[i] : i \in 1..n} = 1..n

OrderByTimestampDesc(cs) ==
    {[i \in 1..Len(cs) |-> cs[order[i]]] :
        order \in {o \in [1..Len(cs) -> 1..Len(cs)] :
                      /\ IsPermutation(o, Len(cs))
                      /\ \A i, j \in 1..Len(cs) :
                            i < j => cs[o[i]].timestamp >= cs[o[j]].timestamp}}

History(c) ==
    /\ IF NotInitialized(c)
       THEN /\ ret' = Ret("history", c, "", "NotInitialized")
            /\ historyOut' = <<>>
       ELSE /\ ret' = Ret("history", c, "", "ok")
            /\ historyOut' \in OrderByTimestampDesc(commits)
    /\ commit_id' = Null
    /\ statusOut' = NoStatus
    /\ UNCHANGED <<cwdIsRoot, initialized, disk, durable, procs>>

(***************************************************************************)
(* Sbac.baseline                                                           *)
(***************************************************************************)
\* baseline without its test for an empty history: the name gets NULL
BaselineUnchecked(c, name) ==
    /\ IF NotInitialized(c)
       THEN /\ ret' = Ret("baseline", c, name, "NotInitialized")
            /\ UNCHANGED baselines
       ELSE /\ \E commit \in Heads(commits) :
                 baselines' = Upsert(baselines, name, commit)
            /\ ret' = Ret("baseline", c, name, "ok")
    /\ NoOuts
    /\ UNCHANGED <<cwdIsRoot, initialized, disk, sbac_dir, objects, files,
                   commits, commit_files, procs>>

Baseline(c, name) ==
    /\ IF NotInitialized(c)
       THEN /\ ret' = Ret("baseline", c, name, "NotInitialized")
            /\ UNCHANGED baselines
       ELSE IF commits = <<>>
       THEN /\ ret' = Ret("baseline", c, name, "NoCommits")
            /\ UNCHANGED baselines
       ELSE /\ \E commit \in Heads(commits) :
                 baselines' = Upsert(baselines, name, commit)
            /\ ret' = Ret("baseline", c, name, "ok")
    /\ NoOuts
    /\ UNCHANGED <<cwdIsRoot, initialized, disk, sbac_dir, objects, files,
                   commits, commit_files, procs>>

(***************************************************************************)
(* Sbac.list_baselines: fetchone()[0] raises TypeError when the baseline's *)
(* commit is not in the table.                                             *)
(***************************************************************************)
ListBaselines(c) ==
    /\ ret' = Ret("list_baselines", c, "",
                  IF NotInitialized(c) THEN "NotInitialized"
                  ELSE IF \E n \in DOMAIN baselines : baselines[n] \notin CommitIds(commits)
                       THEN "raise TypeError"
                       ELSE "ok")
    /\ NoOuts
    /\ UNCHANGED <<cwdIsRoot, initialized, disk, durable, procs>>

(***************************************************************************)
(* Sbac.checkout                                                           *)
(***************************************************************************)
\* SELECT commit_id FROM baselines WHERE name = version, else the version
ResolveVersion(version) ==
    IF version \in DOMAIN baselines THEN baselines[version] ELSE version

\* the query without its WHERE clause
EntriesOfAll(cf, id) == cf

\* SELECT file_path, file_hash FROM commit_files WHERE commit_id = id
EntriesOf(cf, id) == SelectSeq(cf, LAMBDA e : e.commit_id = id)

\* the restore loop: open(object_path, "rb") then open(path, "wb") and copy;
\* a missing object stops the loop with what was written so far
RECURSIVE Restore(_, _)
Restore(rows, t) ==
    IF rows = <<>> THEN [tree |-> t, result |-> "ok"]
    ELSE LET e == Head(rows)
         IN  IF e.file_hash \notin DOMAIN objects
             THEN [tree |-> t, result |-> "raise FileNotFoundError"]
             ELSE Restore(Tail(rows), [t EXCEPT ![e.file_path] = objects[e.file_hash]])

\* open(path, "wb") resolves path against the current directory
Checkout(c, version) ==
    /\ IF NotInitialized(c)
       THEN /\ ret' = Ret("checkout", c, version, "NotInitialized")
            /\ commit_id' = Null
            /\ UNCHANGED disk
       ELSE LET rows == EntriesOf(commit_files, ResolveVersion(version))
                done == Restore(rows, IF cwdIsRoot THEN tree ELSE cwdTree)
            IN  /\ commit_id' = ResolveVersion(version)
                /\ IF cwdIsRoot
                   THEN tree' = done.tree /\ UNCHANGED cwdTree
                   ELSE cwdTree' = done.tree /\ UNCHANGED tree
                /\ ret' = Ret("checkout", c, version, done.result)
    /\ statusOut' = NoStatus
    /\ historyOut' = <<>>
    /\ UNCHANGED <<cwdIsRoot, initialized, durable, procs>>

(***************************************************************************)
(* The calls a user can make: C the controller objects in use, F the       *)
(* <<path, content>> pairs the user writes, K the pairs of clock readings  *)
(* a commit may get, N the baseline names, maxCommits the cap on the rows  *)
(* of commits.                                                             *)
(***************************************************************************)
PathsOf(F) == {f[1] : f \in F}
VersionsOf(K, N) == N \cup {IdOf(k[1]) : k \in K}

\* the clock does not advance between the two readings of a commit
Same(T) == {<<t, t>> : t \in T}
\* the clock may advance between the two readings of a commit
Later(T) == {<<t1, t2>> \in T \X T : t1 <= t2}

\* the user's edits and the calls that change the repository, the working
\* tree or a controller
Changes(C, F, K, N, maxCommits) ==
    \/ \E f \in F : WriteFile(f[1], f[2])
    \/ \E c \in C : New(c)
    \/ \E c \in C : SbacInit(c)
    \/ \E c \in C, p \in PathsOf(F) : Add(c, p)
    \/ \E c \in C, m \in Messages, k \in K :
          Len(commits) < maxCommits /\ Commit(c, m, k[1], k[2])
    \/ \E c \in C, n \in N : Baseline(c, n)
    \/ \E c \in C, v \in VersionsOf(K, N) : Checkout(c, v)

\* the calls that only report
Queries(C, F) ==
    \/ \E c \in C : Status(c)
    \/ \E c \in C, p \in PathsOf(F) \cup {""} : Diff(c, p)
    \/ \E c \in C : History(c)
    \/ \E c \in C : ListBaselines(c)

NextOn(C, F, K, N, maxCommits) ==
    \/ Changes(C, F, K, N, maxCommits)
    \/ Queries(C, F)

(***************************************************************************)
(* Spec: one controller whose current directory is the repository root,    *)
(* two paths.                                                              *)
(***************************************************************************)
Writes ==
    {<<"a.txt", "hello">>, <<"a.txt", "bye">>, <<"a.txt", NoFile>>,
     <<"b.txt", "hello">>}

Init == InitOn({TRUE})
Next == NextOn({1}, Writes, Later(0..MaxTime), {"v1"}, MaxCommits)
Spec == Init /\ [][Next]_vars

(***************************************************************************)
(* SpecCwd: the controller is constructed with a repository root that may  *)
(* or may not be the current directory (the tests pass "test_repo").       *)
(***************************************************************************)
InitAny == InitOn(BOOLEAN)
NextCwd ==
    NextOn({1}, {<<"a.txt", "hello">>, <<"a.txt", "bye">>}, Later(0..MaxTime), {"v1"},
           MaxCommits)
SpecCwd == InitAny /\ [][NextCwd]_vars

(***************************************************************************)
(* SpecHistory: longer histories over one file; every clock reading gives  *)
(* one commit id, so there are at most MaxHistoryTime + 1 commits.         *)
(***************************************************************************)
NextHistory ==
    NextOn({1}, {<<"a.txt", "hello">>}, Later(0..MaxHistoryTime), {"v1"},
           MaxHistoryTime + 1)
SpecHistory == Init /\ [][NextHistory]_vars

(***************************************************************************)
(* SpecControllers: two controller objects on the same directory.          *)
(***************************************************************************)
NextControllers ==
    NextOn({1, 2}, {<<"a.txt", "hello">>}, Later(0..MaxControllersTime), Names, MaxCommits)
SpecControllers == Init /\ [][NextControllers]_vars

(***************************************************************************)
(* SpecStaging: two files, histories of up to MaxCommits commits, and only *)
(* the calls that change something.                                        *)
(***************************************************************************)
NextStaging ==
    Changes({1}, {<<"a.txt", "hello">>, <<"a.txt", "bye">>, <<"b.txt", "hello">>},
            Same(0..MaxTime), {"v1"}, MaxCommits)
SpecStaging == Init /\ [][NextStaging]_vars

(***************************************************************************)
(* SpecParents: one file, histories of up to MaxCommits commits whose      *)
(* timestamps may tie or go backwards.                                     *)
(***************************************************************************)
NextParents ==
    NextOn({1}, {<<"a.txt", "hello">>}, Later(0..MaxTime), Names, MaxCommits)
SpecParents == Init /\ [][NextParents]_vars

(***************************************************************************)
(* SpecAdd: two files, one of them with two contents, and short histories. *)
(***************************************************************************)
NextAdd ==
    Changes({1}, {<<"a.txt", "hello">>, <<"a.txt", "bye">>, <<"b.txt", "hello">>},
            Same(0..MaxAddTime), {"v1"}, MaxAddTime + 1)
SpecAdd == Init /\ [][NextAdd]_vars

(***************************************************************************)
(* The processes C running on one repository, each with its own            *)
(* controller; commit() advances one statement at a time and a process     *)
(* may stop inside it.  A process does one thing at a time.                *)
(***************************************************************************)
Running(C) == {c \in C : ~Idle(c)}

Steps(C, F, K, maxCommits) ==
    \/ \E f \in F : WriteFile(f[1], f[2])
    \/ \E c \in C : Idle(c) /\ New(c)
    \/ \E c \in C : Idle(c) /\ SbacInit(c)
    \/ \E c \in C, p \in PathsOf(F) : Idle(c) /\ tx.owner = 0 /\ Add(c, p)
    \/ \E c \in C :
          Len(commits) + Cardinality(Running(C)) < maxCommits /\ CommitHead(c)
    \/ \E c \in C, m \in Messages, k \in K : CommitInsert(c, m, k[1], k[2])
    \/ \E c \in C : CommitSelect(c)
    \/ \E c \in C : CommitEntry(c)
    \/ \E c \in C : CommitUnstage(c)
    \/ \E c \in C : CommitDone(c)
    \/ \E c \in C : Crash(c)

(***************************************************************************)
(* SpecCrash: one process and two files.                                   *)
(***************************************************************************)
NextCrash ==
    Steps({1}, {<<"a.txt", "hello">>, <<"b.txt", "hello">>}, Same(0..MaxAddTime),
          MaxAddTime + 1)
SpecCrash == Init /\ [][NextCrash]_vars

(***************************************************************************)
(* SpecRace: two processes and one file.                                   *)
(***************************************************************************)
NextRace ==
    \/ Steps({1, 2}, {<<"a.txt", "hello">>}, Same(0..MaxRaceTime), MaxRaceTime + 1)
    \/ \E c \in {1, 2} : Idle(c) /\ AddWhileLocked(c, "a.txt")
SpecRace == Init /\ [][NextRace]_vars

(***************************************************************************)
(* Properties.                                                             *)
(***************************************************************************)
Called(op) == ret'.op = op
Succeeded(op) == ret'.op = op /\ ret'.result = "ok"
IsStaged(tbl, p) == p \in DOMAIN tbl /\ tbl[p].staged = 1
Pos(cs, id) == {i \in 1..Len(cs) : cs[i].id = id}
NewRows == {i \in 1..Len(commit_files') : i > Len(commit_files)}

\* C1: after a checkout that resolved to a commit and completed, every
\* entry (path, file_hash) of that commit has, at that path under the
\* repository root, a file whose digest is file_hash.
CheckoutRoundTrip ==
    (ret.op = "checkout" /\ ret.result = "ok" /\ Pos(commits, commit_id) # {})
        => \A i \in 1..Len(commit_files) :
              commit_files[i].commit_id = commit_id
                 => /\ tree[commit_files[i].file_path] # NoFile
                    /\ Digest(tree[commit_files[i].file_path]) = commit_files[i].file_hash

\* C2: a successful commit appends one commit, records exactly one entry
\* (path, last_hash) for every staged path and none for any other path,
\* clears staged on exactly those paths and leaves the other rows alone; a
\* staged path stays staged until a commit succeeds, and add stages its path.
CommitRecordsStaged ==
    [][ /\ Succeeded("commit") =>
            /\ Len(commits') = Len(commits) + 1
            /\ SubSeq(commit_files', 1, Len(commit_files)) = commit_files
            /\ \A p \in Paths :
                  Cardinality({i \in NewRows : commit_files'[i].file_path = p})
                      = IF IsStaged(files, p) THEN 1 ELSE 0
            /\ \A i \in NewRows :
                  /\ commit_files'[i].commit_id = commits'[Len(commits')].id
                  /\ commit_files'[i].file_hash = files[commit_files'[i].file_path].last_hash
            /\ DOMAIN files' = DOMAIN files
            /\ \A p \in DOMAIN files :
                  files'[p] = [last_hash |-> files[p].last_hash, staged |-> 0]
                  \/ (~IsStaged(files, p) /\ files'[p] = files[p])
        /\ \A p \in Paths :
              (IsStaged(files, p) /\ ~Succeeded("commit")) => IsStaged(files', p)
        /\ Succeeded("add") => IsStaged(files', ret'.arg)
      ]_vars

\* a second commit that took one staged path and left the other row alone
CommitRecordsStagedWitness ==
    /\ ret.op = "commit" /\ ret.result = "ok"
    /\ Len(commits) = 2
    /\ \E p, q \in DOMAIN files :
          /\ p # q
          /\ \E i \in 1..Len(commit_files) :
                /\ commit_files[i].commit_id = commits[2].id
                /\ commit_files[i].file_path = p
          /\ \A i \in 1..Len(commit_files) :
                commit_files[i].file_path = q => commit_files[i].commit_id = commits[1].id

\* C3: the three sets status reports are pairwise disjoint; a staged path
\* whose content changed on disk is reported under staged only.
StatusSetsDisjoint ==
    (ret.op = "status" /\ ret.result = "ok")
        => /\ statusOut.staged \cap statusOut.modified = {}
           /\ statusOut.staged \cap statusOut.untracked = {}
           /\ statusOut.modified \cap statusOut.untracked = {}

\* C4: commit with no staged row fails with NothingStaged and changes nothing.
CommitNothingStagedFails ==
    [][ (Called("commit") /\ initialized[ret'.ctl] /\ \A p \in Paths : ~IsStaged(files, p))
            => ret'.result = "NothingStaged" /\ UNCHANGED <<durable, disk>>
      ]_vars

\* C4 as amended: commit with no staged row never reports NothingStaged;
\* unless the new id is taken (IntegrityError, nothing changed) it succeeds,
\* appending a commit without entries whose parent is a head (NULL for the
\* first commit), and changes no tracked row, blob or baseline.
CommitNothingStagedAppends ==
    [][ (Called("commit") /\ initialized[ret'.ctl] /\ \A p \in Paths : ~IsStaged(files, p))
            => \/ ret'.result = "raise IntegrityError" /\ UNCHANGED <<durable, disk>>
               \/ /\ ret'.result = "ok"
                  /\ Len(commits') = Len(commits) + 1
                  /\ SubSeq(commits', 1, Len(commits)) = commits
                  /\ Pos(commits, commits'[Len(commits')].id) = {}
                  /\ LET parent == commits'[Len(commits')].parent_id
                     IN  IF commits = <<>> THEN parent = Null
                         ELSE \E i \in 1..Len(commits) :
                                 /\ commits[i].id = parent
                                 /\ \A j \in 1..Len(commits) :
                                       commits[j].timestamp <= commits[i].timestamp
                  /\ UNCHANGED <<commit_files, files, objects, baselines, sbac_dir, disk>>
      ]_vars

\* an empty commit on top of an earlier one, with an unstaged tracked row
CommitNothingStagedWitness ==
    /\ ret.op = "commit" /\ ret.result = "ok"
    /\ Len(commits) = 2
    /\ DOMAIN files # {}
    /\ \A i \in 1..Len(commit_files) : commit_files[i].commit_id # commits[2].id

\* C5: checkout takes version as a baseline name first and as a commit id
\* otherwise; a version that is neither fails with CommitNotFound and
\* writes no file.
CheckoutUnknownFails ==
    [][ (Called("checkout") /\ initialized[ret'.ctl])
            => /\ commit_id' = IF ret'.arg \in DOMAIN baselines
                               THEN baselines[ret'.arg] ELSE ret'.arg
               /\ (ret'.arg \notin DOMAIN baselines /\ Pos(commits, ret'.arg) = {})
                     => ret'.result = "CommitNotFound" /\ UNCHANGED disk
      ]_vars

\* C6: a non-null parent_id names a commit inserted strictly earlier.
ParentCreatedBefore ==
    \A i \in 1..Len(commits) :
        commits[i].parent_id # Null
            => \E j \in 1..(i - 1) : commits[j].id = commits[i].parent_id

\* a commit with a parent whose timestamp is not later than its parent's
ParentCreatedBeforeWitness ==
    /\ Len(commits) >= 2
    /\ commits[2].parent_id = commits[1].id
    /\ commits[2].timestamp <= commits[1].timestamp

\* C7: one linear chain: the parent of each commit is the commit created
\* just before it, at most one commit has a null parent and no two commits
\* have the same parent.
LinearHistory ==
    /\ \A i \in 1..Len(commits) :
          commits[i].parent_id = IF i = 1 THEN Null ELSE commits[i - 1].id
    /\ Cardinality({i \in 1..Len(commits) : commits[i].parent_id = Null}) <= 1
    /\ \A i, j \in 1..Len(commits) :
          (i # j) => commits[i].parent_id # commits[j].parent_id

\* C8: history lists every commit, newest timestamp first, and no commit
\* has a parent with a later timestamp than its own.
HistoryNewestFirst ==
    (ret.op = "history" /\ ret.result = "ok")
        => /\ Len(historyOut) = Len(commits)
           /\ {historyOut[i] : i \in 1..Len(historyOut)} = {commits[i] : i \in 1..Len(commits)}
           /\ \A i, j \in 1..Len(historyOut) :
                 i < j => historyOut[i].timestamp >= historyOut[j].timestamp
           /\ \A i, j \in 1..Len(commits) :
                 commits[i].parent_id = commits[j].id
                    => commits[j].timestamp <= commits[i].timestamp

\* C9: init reports AlreadyInitialized and changes nothing whenever the
\* metadata directory exists at the call, whichever controller is used,
\* and otherwise succeeds and creates it.
InitReportsExisting ==
    [][ Called("init")
            => IF sbac_dir
               THEN ret'.result = "AlreadyInitialized" /\ UNCHANGED <<durable, disk>>
               ELSE ret'.result = "ok" /\ sbac_dir' /\ initialized'[ret'.ctl]
      ]_vars

\* C10: while there is no repository (no successful init yet) every call
\* other than init reports NotInitialized and changes neither the durable
\* state nor the files; once init has succeeded no call reports
\* NotInitialized.
OtherOps ==
    {"add", "status", "diff", "commit", "history", "baseline", "list_baselines", "checkout"}

NotInitializedReported ==
    [][ ret'.op \in OtherOps
            => IF sbac_dir
               THEN ret'.result # "NotInitialized"
               ELSE ret'.result = "NotInitialized" /\ UNCHANGED <<durable, disk>>
      ]_vars

BaselinePointsAtHead ==
    [][ (Called("baseline") /\ initialized[ret'.ctl])
            => IF commits = <<>>
               THEN ret'.result = "NoCommits" /\ UNCHANGED <<durable, disk>>
               ELSE /\ ret'.result = "ok"
                    /\ DOMAIN baselines' = DOMAIN baselines \cup {ret'.arg}
                    /\ \E i \in 1..Len(commits) :
                          /\ commits[i].id = baselines'[ret'.arg]
                          /\ \A j \in 1..Len(commits) :
                                commits[j].timestamp <= commits[i].timestamp
                    /\ \A n \in DOMAIN baselines \ {ret'.arg} : baselines'[n] = baselines[n]
                    /\ UNCHANGED <<sbac_dir, objects, files, commits, commit_files, disk>>
      ]_vars

\* a name put on the second, later commit while another name stays on the first
BaselinePointsAtHeadWitness ==
    /\ ret.op = "baseline" /\ ret.result = "ok"
    /\ Len(commits) = 2
    /\ commits[1].timestamp < commits[2].timestamp
    /\ baselines[ret.arg] = commits[2].id
    /\ \E n \in DOMAIN baselines : n # ret.arg /\ baselines[n] = commits[1].id

\* C13: a blob is stored under the digest of its bytes, a digest once
\* present stays present with the same bytes, and an add of content that is
\* already stored leaves the object store as it is.
BlobsImmutable ==
    [][ /\ \A d \in DOMAIN objects : d \in DOMAIN objects' /\ objects'[d] = objects[d]
        /\ \A d \in DOMAIN objects' : Digest(objects'[d]) = d
        /\ (Succeeded("add") /\ Digest(tree[ret'.arg]) \in DOMAIN objects)
              => objects' = objects
      ]_vars

\* b.txt added with the content a.txt was added with, beside another blob
BlobsImmutableWitness ==
    /\ ret.op = "add" /\ ret.result = "ok" /\ ret.arg = "b.txt"
    /\ "a.txt" \in DOMAIN files
    /\ files["a.txt"].last_hash = files["b.txt"].last_hash
    /\ Cardinality(DOMAIN objects) = 2

\* C14: every tracked path has a blob stored for its last_hash.
TrackedHaveBlobs ==
    \A p \in DOMAIN files :
        /\ files[p].last_hash \in DOMAIN objects
        /\ Digest(objects[files[p].last_hash]) = files[p].last_hash

\* two tracked paths with different digests
TrackedHaveBlobsWitness ==
    /\ DOMAIN files = {"a.txt", "b.txt"}
    /\ files["a.txt"].last_hash # files["b.txt"].last_hash

\* C15: diff of a tracked path whose file exists, and diff of all files,
\* complete successfully and change nothing.
DiffCompletes ==
    [][ (Called("diff") /\ initialized[ret'.ctl])
            => /\ (ret'.arg # "" /\ ret'.arg \in DOMAIN files /\ tree[ret'.arg] # NoFile)
                     => ret'.result = "ok"
               /\ ret'.arg = "" => ret'.result = "ok"
               /\ UNCHANGED <<durable, disk>>
      ]_vars

\* C16: checkout changes no table and no blob, and writes no file whose
\* path has no entry in the commit it resolved.
CheckoutFrame ==
    [][ Called("checkout")
            => /\ UNCHANGED durable
               /\ \A p \in Paths :
                     (\A i \in 1..Len(commit_files) :
                          ~(/\ commit_files[i].commit_id = commit_id'
                            /\ commit_files[i].file_path = p))
                        => tree'[p] = tree[p] /\ cwdTree'[p] = cwdTree[p]
      ]_vars

\* the second commit checked out: its path is restored, and a path recorded
\* in the first commit only keeps its edited content
CheckoutFrameWitness ==
    /\ ret.op = "checkout" /\ ret.result = "ok"
    /\ Len(commits) = 2
    /\ commit_id = commits[2].id
    /\ \E i \in 1..Len(commit_files) : commit_files[i].commit_id = commit_id
    /\ \E i \in 1..Len(commit_files) :
          LET q == commit_files[i].file_path
          IN  /\ commit_files[i].commit_id = commits[1].id
              /\ \A j \in 1..Len(commit_files) :
                    commit_files[j].file_path = q => commit_files[j].commit_id # commit_id
              /\ tree[q] # NoFile
              /\ Digest(tree[q]) # commit_files[i].file_hash

\* C17: whatever statement of commit() a process stops at, every step
\* either leaves commits and commit_files alone and clears no staged flag,
\* or makes the whole commit durable: one commit, one entry per path that
\* was staged, the flag cleared on exactly those paths.
CommitAtomic ==
    [][ \/ /\ commits' = commits
           /\ commit_files' = commit_files
           /\ \A p \in DOMAIN files :
                 p \in DOMAIN files' /\ (IsStaged(files, p) => IsStaged(files', p))
        \/ /\ Len(commits') = Len(commits) + 1
           /\ SubSeq(commits', 1, Len(commits)) = commits
           /\ SubSeq(commit_files', 1, Len(commit_files)) = commit_files
           /\ \A p \in Paths :
                 Cardinality({i \in NewRows : commit_files'[i].file_path = p})
                     = IF IsStaged(files, p) THEN 1 ELSE 0
           /\ \A i \in NewRows :
                 /\ commit_files'[i].commit_id = commits'[Len(commits')].id
                 /\ commit_files'[i].file_hash = files[commit_files'[i].file_path].last_hash
           /\ DOMAIN files' = DOMAIN files
           /\ \A p \in DOMAIN files :
                 files'[p] = [last_hash |-> files[p].last_hash,
                              staged |-> IF IsStaged(files, p) THEN 0 ELSE files[p].staged]
      ]_vars

\* a process stopped between an entry's INSERT and its UPDATE: nothing of
\* the commit is in the tables and both paths are still staged
CommitAtomicWitness ==
    /\ ret.op = "crash" /\ ret.arg = "entry"
    /\ commits = <<>> /\ commit_files = <<>>
    /\ IsStaged(files, "a.txt") /\ IsStaged(files, "b.txt")
    /\ tx = NoTx

\* C18: the INSERT of commit() writes the parent its process read earlier,
\* whatever the head is by then, and conn.commit() appends that row; so two
\* processes that read the same head both insert a child of it.
CommitKeepsHeadRead ==
    [][ \A c \in {1, 2} :
           /\ (pc[c] = "head" /\ pc'[c] = "insert")
                 => tx'.commits[Len(tx'.commits)].parent_id = parents[c]
           /\ (pc[c] = "loop" /\ pc'[c] = "idle" /\ ret'.op = "commit")
                 => commits' = Append(commits, tx.commits[Len(tx.commits)])
      ]_vars

\* two commits with the same non-null parent although each was stamped
\* later than every commit before it
SiblingCommitsWitness ==
    /\ Len(commits) = 3
    /\ commits[2].parent_id = commits[1].id
    /\ commits[3].parent_id = commits[1].id
    /\ commits[1].timestamp < commits[2].timestamp
    /\ commits[2].timestamp < commits[3].timestamp

\* C19: every baseline names an existing commit; list_baselines finds the
\* message of each and checkout of a baseline name resolves to a commit.
BaselinesNameCommits ==
    /\ \A n \in DOMAIN baselines : baselines[n] \in CommitIds(commits)
    /\ ret.op = "list_baselines" => ret.result \in {"ok", "NotInitialized"}
    /\ (ret.op = "checkout" /\ ret.result # "NotInitialized" /\ ret.arg \in DOMAIN baselines)
          => commit_id \in CommitIds(commits)

\* list_baselines over two names that are on different commits
BaselinesNameCommitsWitness ==
    /\ ret.op = "list_baselines" /\ ret.result = "ok"
    /\ \E n, m \in DOMAIN baselines : baselines[n] # baselines[m]

\* C20: every commit entry names an existing commit and a stored blob, no
\* two entries have the same (commit_id, path), and checkout of an existing
\* commit does not stop at a missing object.
EntriesSound ==
    /\ \A i \in 1..Len(commit_files) :
          /\ commit_files[i].commit_id \in CommitIds(commits)
          /\ commit_files[i].file_hash \in DOMAIN objects
    /\ \A i, j \in 1..Len(commit_files) :
          (/\ commit_files[i].commit_id = commit_files[j].commit_id
           /\ commit_files[i].file_path = commit_files[j].file_path) => i = j
    /\ (ret.op = "checkout" /\ commit_id \in CommitIds(commits)) => ret.result = "ok"

\* checkout of the second commit, which records a path the first recorded
\* with another content
EntriesSoundWitness ==
    /\ ret.op = "checkout" /\ ret.result = "ok"
    /\ Len(commits) = 2
    /\ commit_id = commits[2].id
    /\ \E i, j \in 1..Len(commit_files) :
          /\ commit_files[i].commit_id = commits[1].id
          /\ commit_files[j].commit_id = commits[2].id
          /\ commit_files[i].file_path = commit_files[j].file_path
          /\ commit_files[i].file_hash # commit_files[j].file_hash

====
